---- MODULE Spec2Model ----
(***************************************************************************)
(* Model of src/app.js: the bootstrap of the storefront (Express + session *)
(* middleware + Okta OIDC middleware), its request pipeline, the landing   *)
(* page handler and the local logout handler.                              *)
(***************************************************************************)
EXTENDS Integers, Sequences, FiniteSets

(***************************************************************************)
(* JavaScript numbers.  Every number of app.js is an IEEE-754 double.  A   *)
(* non-negative double is modelled exactly as [m |-> bits, e |-> Int]: the *)
(* value m * 2^e, with m a natural number written as its binary digits,    *)
(* least significant first (TLC's integers are too narrow for a 53-bit     *)
(* significand and its 106-bit products).                                  *)
(***************************************************************************)

\* Significand width of a double.
DoublePrecision == 53

\* A natural without its leading zero digits (the last ones of the sequence).
Trim(a) ==
    LET ones == {i \in DOMAIN a : a[i] = 1}
    IN  IF ones = {} THEN << >>
        ELSE SubSeq(a, 1, CHOOSE i \in ones : \A j \in ones : j <= i)

\* Arithmetic on the digits runs on limbs of LimbBits binary digits each, so that
\* a limb product and its carry stay within TLC's integers.
LimbBits == 3 * 5
LimbBase == 2 ^ LimbBits

RECURSIVE LimbOf(_, _, _)
\* The value of the n binary digits of a that start at position from.
LimbOf(a, from, n) ==
    IF n = 0 \/ from > Len(a) THEN 0
    ELSE a[from] + 2 * LimbOf(a, from + 1, n - 1)

ToLimbs(a) ==
    [j \in 1..((Len(a) + LimbBits - 1) \div LimbBits) |->
        LimbOf(a, LimbBits * (j - 1) + 1, LimbBits)]

ToBits(L) ==
    Trim([i \in 1..(LimbBits * Len(L)) |->
            (L[((i - 1) \div LimbBits) + 1] \div (2 ^ ((i - 1) % LimbBits))) % 2])

IntToBits(n) == ToBits(<< n % LimbBase, (n \div LimbBase) % LimbBase, n \div (LimbBase * LimbBase) >>)

\* Only for values that fit an integer.
BitsToInt(a) == LimbOf(a, 1, Len(a))

RECURSIVE LimbAdd(_, _, _)
LimbAdd(A, B, c) ==
    IF A = << >> /\ B = << >> THEN (IF c = 0 THEN << >> ELSE << c >>)
    ELSE LET x == IF A = << >> THEN 0 ELSE A[1]
             y == IF B = << >> THEN 0 ELSE B[1]
             s == x + y + c
         IN  << s % LimbBase >> \o LimbAdd(IF A = << >> THEN << >> ELSE Tail(A),
                                           IF B = << >> THEN << >> ELSE Tail(B),
                                           s \div LimbBase)

RECURSIVE LimbMulSmall(_, _, _)
LimbMulSmall(A, m, c) ==
    IF A = << >> THEN (IF c = 0 THEN << >> ELSE << c >>)
    ELSE LET p == A[1] * m + c
         IN  << p % LimbBase >> \o LimbMulSmall(Tail(A), m, p \div LimbBase)

RECURSIVE LimbMul(_, _)
LimbMul(A, B) ==
    IF B = << >> THEN << >>
    ELSE LimbAdd(LimbMulSmall(A, B[1], 0), << 0 >> \o LimbMul(A, Tail(B)), 0)

RECURSIVE LimbDivSmall(_, _)
\* Long division by the small integer d > 0: quotient limbs and remainder.
LimbDivSmall(A, d) ==
    IF A = << >> THEN [q |-> << >>, r |-> 0]
    ELSE LET hi  == LimbDivSmall(Tail(A), d)
             num == hi.r * LimbBase + A[1]
         IN  [q |-> << num \div d >> \o hi.q, r |-> num % d]

BigAdd(a, b) == ToBits(LimbAdd(ToLimbs(a), ToLimbs(b), 0))

BigMul(a, b) == ToBits(LimbMul(ToLimbs(a), ToLimbs(b)))

DivSmall(a, d) ==
    LET qr == LimbDivSmall(ToLimbs(a), d)
    IN  [q |-> ToBits(qr.q), r |-> qr.r]

\* a * 2^k
ShiftLeft(a, k) == IF a = << >> THEN << >> ELSE [i \in 1..k |-> 0] \o a

\* floor(a / 2^k)
ShiftRight(a, k) == IF k >= Len(a) THEN << >> ELSE SubSeq(a, k + 1, Len(a))

\* The double nearest to m * 2^e: the significand cut to DoublePrecision digits,
\* round-to-nearest, ties to even (the rounding of every arithmetic operation).
FRound(m0, e) ==
    LET m == Trim(m0)
        s == Len(m) - DoublePrecision
    IN  IF s <= 0 THEN [m |-> m, e |-> e]
        ELSE LET kept   == ShiftRight(m, s)
                 guard  == m[s]
                 sticky == \E i \in 1..(s - 1) : m[i] = 1
                 up     == guard = 1 /\ (sticky \/ kept[1] = 1)
             IN  [m |-> IF up THEN BigAdd(kept, << 1 >>) ELSE kept, e |-> e + s]

FromInt(n) == [m |-> IntToBits(n), e |-> 0]

\* x * y in double arithmetic.
FMul(x, y) == FRound(BigMul(x.m, y.m), x.e + y.e)

\* Quotient digits computed before rounding: more than a significand holds.
DivGuardBits == DoublePrecision + 11

\* x / y in double arithmetic, y an integer-valued double with a small significand.
\* The quotient is taken to DivGuardBits extra digits; a non-zero remainder
\* becomes one more (sticky) digit, so that FRound sees ties exactly.
FDiv(x, y) ==
    LET d  == BitsToInt(y.m)
        qr == DivSmall(ShiftLeft(x.m, DivGuardBits), d)
        st == IF qr.r = 0 THEN 0 ELSE 1
    IN  FRound(<< st >> \o qr.q, x.e - y.e - DivGuardBits - 1)

\* Math.floor of a non-negative double, as an integer.
Floor(x) ==
    IF x.e >= 0 THEN BitsToInt(ShiftLeft(x.m, x.e))
    ELSE BitsToInt(ShiftRight(x.m, 0 - x.e))

\* Number.prototype.toFixed(f) of a non-negative double x below 10^21: the integer
\* n for which n / 10^f - x is closest to zero, the larger n on a tie, which is
\* floor(x * 10^f + 1/2) computed exactly from x's binary value.
ToFixedInt(x, f) ==
    IF x.e >= 0 THEN BitsToInt(ShiftLeft(x.m, x.e)) * (10 ^ f)
    ELSE LET k == 0 - x.e
         IN  BitsToInt(ShiftRight(BigAdd(BigMul(x.m, IntToBits(2 * (10 ^ f))),
                                         ShiftLeft(<< 1 >>, k)),
                                  k + 1))

(***************************************************************************)
(* JavaScript strings, as sequences of one-character strings.              *)
(***************************************************************************)
DigitChars == << "0", "1", "2", "3", "4", "5", "6", "7", "8", "9" >>

RECURSIVE NumToString(_)
\* Number.prototype.toString of a non-negative integer.
NumToString(n) ==
    IF n < 10 THEN << DigitChars[n + 1] >>
    ELSE NumToString(n \div 10) \o << DigitChars[(n % 10) + 1] >>

RECURSIVE PadStart(_, _, _)
\* String.prototype.padStart(w, c) with a one-character filler.
PadStart(s, w, c) == IF Len(s) >= w THEN s ELSE PadStart(<< c >> \o s, w, c)

\* Number.prototype.toFixed(f), f > 0: at least one integer digit, a point, and
\* exactly f decimals.
ToFixed(x, f) ==
    LET n == ToFixedInt(x, f)
    IN  NumToString(n \div (10 ^ f)) \o << "." >> \o PadStart(NumToString(n % (10 ^ f)), f, "0")

(***************************************************************************)
(* The landing page's data (app.get('/'), lines 85-107).                   *)
(***************************************************************************)

\* Binary digits of the modelled Math.random(): it returns k / 2^RandBits for
\* k in 0 .. 2^RandBits - 1, or the largest double below 1.
RandBits == 1

\* Draws are named by an index; index 2^RandBits names the largest double below 1.
RandIndex == 0..(2 ^ RandBits)

RandMaxIndex == 2 ^ RandBits

\* The double Math.random() returned for draw index k.
RandValue(k) ==
    IF k = RandMaxIndex
    THEN [m |-> [i \in 1..DoublePrecision |-> 1], e |-> 0 - DoublePrecision]
    ELSE [m |-> IntToBits(k), e |-> 0 - RandBits]

NumCoffees == 4
CoffeeKinds == 12
PadWidth == 2
DiscountSpan == 11
DiscountMin == 5
PriceDecimals == 2

\* Mutant of CoffeeCode: the code is not padded.
CoffeeCodeUnpadded(k) ==
    NumToString(Floor(FMul(RandValue(k), FromInt(CoffeeKinds))) + 1)

\* (Math.floor(Math.random() * 12) + 1).toString().padStart(2, '0')
CoffeeCode(k) ==
    PadStart(NumToString(Floor(FMul(RandValue(k), FromInt(CoffeeKinds))) + 1), PadWidth, "0")

\* Mutant of Discount: the span is one short, 15 is never drawn.
DiscountShortSpan(k) ==
    Floor(FMul(RandValue(k), FromInt(DiscountSpan - 1))) + DiscountMin

\* Math.floor(Math.random() * 11) + 5
Discount(k) == Floor(FMul(RandValue(k), FromInt(DiscountSpan))) + DiscountMin

\* The literal 8.95: the double nearest to 895/100, which is what the correctly
\* rounded quotient of the two exactly representable integers is.
ListPrice == FDiv(FromInt(895), FromInt(100))

\* (8.95 * ((100 - discount) / 100)).toFixed(2)
BasePrice(discount) ==
    ToFixed(FMul(ListPrice, FDiv(FromInt(100 - discount), FromInt(100))), PriceDecimals)

\* The three functions above, tabulated by draw index (computed once).
CoffeeTable == [k \in RandIndex |-> CoffeeCode(k)]
DiscountTable == [k \in RandIndex |-> Discount(k)]
PriceTable == [k \in RandIndex |-> BasePrice(Discount(k))]

\* The data handed to res.render('home', ...) for the draws d (four coffee draws,
\* then the discount draw) and the identity context's display name.
HomePage(d, name) ==
    [name      |-> name,
     discount  |-> DiscountTable[d[NumCoffees + 1]],
     basePrice |-> PriceTable[d[NumCoffees + 1]],
     product   |-> [i \in 1..NumCoffees |-> CoffeeTable[d[i]]]]

(***************************************************************************)
(* The application: bootstrap, session store, request pipeline.            *)
(*                                                                         *)
(* Node runs one callback at a time, to its end.  A request is served by   *)
(* a chain of callbacks: its arrival, the end of the static file lookup,   *)
(* the delivery of its stored session, the end of the rendering.  Each of  *)
(* these is one action; within it the registered stages call one another   *)
(* through next() until one of them waits or sends the response.           *)
(***************************************************************************)

\* Requests the server holds at one time.
MaxInFlight == 2
\* Session identifiers in use at one time (0 is: no session id).
MaxSessions == 2
\* 'error' events the identity middleware emits in one run.
MaxErrors == 1

SessionIds == 1..MaxSessions

\* What the identity middleware keeps in a session: the state of a login in
\* progress, and the identity (tokens, userinfo) of a completed one.
Keys == {"oidc", "passport"}

\* Request kinds: GET /, GET /logout, and the middleware's /login and
\* /authorization-code/callback.
Kinds == {"root", "logout", "login", "callback"}

\* session({...}) options.
Resave == TRUE
SaveUninitialized == FALSE
\* Mutant of SessionUnset: the option is left at its default.
SessionUnsetKeep == "keep"
SessionUnset == "destroy"

\* Mutant of Pipeline: the routes are registered before the identity middleware.
PipelineRoutesFirst == << "static", "session", "route", "oidc" >>

\* Order in which app.use / app.get register the stages a request runs through.
Pipeline == << "static", "session", "oidc", "route" >>

\* What app.js registers on the middleware's emitter, and the listener's state
\* when the exported function returns (app.listen is called in 'ready' only).
ReadyHandlerRegistered == TRUE
\* Mutant of ErrorHandlerRegistered: no 'error' listener.
ErrorHandlerMissing == FALSE
ErrorHandlerRegistered == TRUE
\* Mutant of ServerAfterStart: app.listen is called outside the 'ready' listener.
ServerListensAtStart == "binding"
ServerAfterStart == "closed"

Undefined == "undefined"
DisplayName == "Display Name"

NoPage == [name |-> Undefined, discount |-> 0, basePrice |-> << >>, product |-> << >>]

\* A request as it arrives: nothing of the pipeline has run.
NewReq ==
    [kind |-> "none", idx |-> 1, passed |-> << >>,
     cookie |-> 0, sid |-> 0, hasSession |-> FALSE, sess |-> {}, orig |-> {},
     user |-> FALSE, page |-> NoPage]

\* What is remembered of the request that completed last.
NoLast ==
    [kind |-> "none", status |-> 0, location |-> "", page |-> NoPage,
     prompted |-> FALSE]

VARIABLES
    started,    \* the exported function has run
    oidc,       \* identity middleware: "none", "pending", "ready", "failed"
    onReady,    \* a 'ready' listener is registered
    onError,    \* an 'error' listener is registered
    server,     \* "closed", "binding" (app.listen called), "listening"
    emitted,    \* 'error' events emitted
    logged,     \* errors written by console.log(err)
    crashed,    \* the process died of an unhandled 'error' event
    store,      \* session store: session id -> keys, for the sessions it holds
    jar,        \* the browser's session cookie (0: none)
    idp,        \* the identity provider holds a valid session for the user
    reqs,       \* the requests in flight, each waiting for its next callback
    rnd,        \* what Math.random() returns to the draws of a GET /
    last,       \* history: the request that completed last
    loggedOut,  \* history: ids of the sessions with identity GET /logout destroyed
    seq         \* history: a GET /logout, then a GET /, each sent with no other
                \* request in flight: "none", "logout", "loggedOut", "root"

vars == << started, oidc, onReady, onError, server, emitted, logged, crashed,
           store, jar, idp, reqs, rnd, last, loggedOut, seq >>

bootVars == << started, oidc, onReady, onError, server, emitted, logged, crashed >>

Min(S) == CHOOSE x \in S : \A y \in S : x <= y

\* ---- express-session, at the end of a response (its res.end wrapper) ----

\* Mutant of ShouldDestroy: an unset req.session goes unnoticed.
ShouldDestroyNever(q) == FALSE

\* req.session was unset and unset: 'destroy' is configured.
ShouldDestroy(q) == q.sid # 0 /\ SessionUnset = "destroy" /\ ~q.hasSession

IsModified(q) == q.sess # q.orig

ShouldSave(q) ==
    /\ q.hasSession
    /\ q.sid # 0
    /\ IF ~SaveUninitialized /\ q.cookie # q.sid
       THEN IsModified(q)
       ELSE Resave \/ IsModified(q)

ShouldSetCookie(q) ==
    q.hasSession /\ q.cookie # q.sid /\ (SaveUninitialized \/ IsModified(q))

StoreDestroy(st, sid) == [s \in DOMAIN st \ {sid} |-> st[s]]

StoreSet(st, sid, v) == [s \in DOMAIN st \cup {sid} |-> IF s = sid THEN v ELSE st[s]]

StoreAfterEnd(st, q) ==
    IF ShouldDestroy(q) THEN StoreDestroy(st, q.sid)
    ELSE IF ShouldSave(q) THEN StoreSet(st, q.sid, q.sess)
    ELSE st

\* ---- what a callback of a request works on ----

\* The request and the state it shares with the others; out tells how the
\* callback went on: "run" (it is running), "wait" (it returned, the request
\* waits for its next callback), "done" (the response is sent), "stuck" (no
\* session id is left to generate).
World(q) ==
    [q |-> q, store |-> store, jar |-> jar, idp |-> idp, last |-> last,
     loggedOut |-> loggedOut, out |-> "run"]

\* The stage started something asynchronous and returned.
Wait(w) == [w EXCEPT !.out = "wait"]

\* next(): the request moves on to the next registered stage.
CallNext(w) ==
    [w EXCEPT !.q.idx = @ + 1, !.q.passed = Append(@, Pipeline[w.q.idx])]

\* res.end(): the session is destroyed or saved, the browser takes a new
\* cookie, the request is over.
EndResponse(w, status, location, prompted) ==
    [w EXCEPT
       !.out = "done",
       !.store = StoreAfterEnd(w.store, w.q),
       !.jar = IF ShouldSetCookie(w.q) THEN w.q.sid ELSE w.jar,
       !.last = [kind |-> w.q.kind, status |-> status, location |-> location,
                 page |-> w.q.page, prompted |-> prompted],
       !.loggedOut = IF w.q.kind = "logout" /\ ShouldDestroy(w.q) /\ "passport" \in w.q.orig
                     THEN w.loggedOut \cup {w.q.sid}
                     ELSE w.loggedOut]

\* ---- the stages ----

\* express.static: the file is looked up (none of the modelled paths is a
\* static file).
StaticLookup(w) == Wait(w)

\* The lookup found nothing, the request falls through.
StaticMiss(w) == CallNext(w)

\* Session ids no cookie, stored session or request in flight refers to.
FreeSids ==
    SessionIds \ (DOMAIN store \cup {jar} \cup {p.sid : p \in reqs}
                  \cup {p.cookie : p \in reqs})

\* express-session generate(): a new empty session with a fresh id.
Generate(w) ==
    IF FreeSids = {} THEN [w EXCEPT !.out = "stuck"]
    ELSE [w EXCEPT !.q.sid = Min(FreeSids), !.q.hasSession = TRUE,
                   !.q.sess = {}, !.q.orig = {},
                   !.loggedOut = @ \ {Min(FreeSids)}]

\* express-session: without a cookie a session is generated at once; with a
\* cookie the store is asked for its session (the memory store reads it now and
\* delivers it in a later callback).
SessionRead(w) ==
    IF w.q.cookie = 0 THEN CallNext(Generate(w))
    ELSE IF w.q.cookie \in DOMAIN w.store
    THEN Wait([w EXCEPT !.q.sid = w.q.cookie, !.q.hasSession = TRUE,
                        !.q.sess = w.store[w.q.cookie],
                        !.q.orig = w.store[w.q.cookie]])
    ELSE Wait(w)

\* The store's answer is delivered: the session read becomes req.session; for
\* a cookie the store did not know a session is generated.
SessionDelivered(w) ==
    IF w.q.hasSession THEN CallNext(w) ELSE CallNext(Generate(w))

\* oidc.router: the identity context (req.userContext) is filled from the
\* session; the middleware's own routes are answered here, every other request
\* is passed on.
OidcRouter(w) ==
    LET u == [w EXCEPT !.q.user = w.q.hasSession /\ "passport" \in w.q.sess]
    IN  CASE u.q.kind = "login" ->
               \* state and nonce go to the session, the browser to the provider
               EndResponse([u EXCEPT !.q.sess = IF u.q.hasSession THEN @ \cup {"oidc"} ELSE @],
                           302, "provider", FALSE)
          [] u.q.kind = "callback" ->
               \* the provider authenticated the user, asking for credentials
               \* only without a provider session; the code is exchanged (what
               \* is saved is the session delivered before, so the exchange is
               \* not given a callback of its own)
               IF u.q.hasSession /\ "oidc" \in u.q.sess
               THEN EndResponse([u EXCEPT !.q.sess = (@ \ {"oidc"}) \cup {"passport"},
                                          !.idp = TRUE],
                                302, "/", ~u.idp)
               ELSE EndResponse(u, 401, "", FALSE)
          [] OTHER -> CallNext(u)

\* app.get('/'): the draws, then res.render (the response is sent when the
\* template is rendered).
GetRoot(w) ==
    Wait([w EXCEPT !.q.page = HomePage(rnd, IF w.q.user THEN DisplayName ELSE Undefined)])

\* The rendered page is sent.
RenderSend(w) == EndResponse(w, 200, "", FALSE)

\* Mutant of Logout: the handler also ends the provider's session.
LogoutAtProvider(w) ==
    EndResponse([w EXCEPT !.q.hasSession = FALSE, !.idp = FALSE], 302, "/", FALSE)

\* app.get('/logout'): delete req.session; res.redirect('/').
Logout(w) ==
    EndResponse([w EXCEPT !.q.hasSession = FALSE], 302, "/", FALSE)

\* The application's routes.
Routes(w) ==
    CASE w.q.kind = "root" -> GetRoot(w)
      [] w.q.kind = "logout" -> Logout(w)
      [] OTHER -> CallNext(w)

\* No stage answered: Express answers 404.
NotFound(w) == EndResponse(w, 404, "", FALSE)

\* The request enters the stage it is at.
Enter(w) ==
    CASE Pipeline[w.q.idx] = "static" -> StaticLookup(w)
      [] Pipeline[w.q.idx] = "session" -> SessionRead(w)
      [] Pipeline[w.q.idx] = "oidc" -> OidcRouter(w)
      [] Pipeline[w.q.idx] = "route" -> Routes(w)

\* The callback runs the stages, one calling the next, until one waits or ends
\* the response.
RECURSIVE Run(_)
Run(w) ==
    IF w.out # "run" THEN w
    ELSE IF w.q.idx > Len(Pipeline) THEN NotFound(w)
    ELSE Run(Enter(w))

\* Request q waits at the stage of this name.
WaitsAt(q, name) == q.idx <= Len(Pipeline) /\ Pipeline[q.idx] = name

\* The callback of request q ended in w: the request waits or is over (two
\* requests in the same state are told apart by the order in which they move).
Commit(q, w) ==
    /\ w.out \in {"wait", "done"}
    /\ IF w.out = "done"
       THEN reqs' = reqs \ {q}
       ELSE w.q \notin reqs /\ reqs' = (reqs \ {q}) \cup {w.q}
    /\ store' = w.store
    /\ jar' = w.jar
    /\ idp' = w.idp
    /\ last' = w.last
    /\ loggedOut' = w.loggedOut

\* ---- bootstrap (the exported function) and the middleware's signals ----

Start ==
    /\ ~started
    /\ started' = TRUE
    /\ oidc' = "pending"
    /\ onReady' = ReadyHandlerRegistered
    /\ onError' = ErrorHandlerRegistered
    /\ server' = ServerAfterStart
    /\ UNCHANGED << emitted, logged, crashed, store, jar, idp, reqs, rnd,
                    last, loggedOut, seq >>

\* The middleware emits 'ready'; the listener calls app.listen.
OidcReady ==
    /\ started /\ ~crashed
    /\ oidc = "pending"
    /\ oidc' = "ready"
    /\ server' = IF onReady THEN "binding" ELSE server
    /\ UNCHANGED << started, onReady, onError, emitted, logged, crashed, store, jar,
                    idp, reqs, rnd, last, loggedOut, seq >>

\* The port is bound; the callback of app.listen logs it.
ListenDone ==
    /\ ~crashed
    /\ server = "binding"
    /\ server' = "listening"
    /\ UNCHANGED << started, oidc, onReady, onError, emitted, logged, crashed, store,
                    jar, idp, reqs, rnd, last, loggedOut, seq >>

\* The middleware emits 'error': while it initializes (it then never becomes
\* ready), or later while it serves requests.  With a listener the error is
\* logged; an 'error' event without a listener is thrown and ends the process.
OidcError ==
    /\ started /\ ~crashed
    /\ emitted < MaxErrors
    /\ \/ oidc = "pending" /\ oidc' = "failed"
       \/ oidc = "ready" /\ server = "listening" /\ oidc' = oidc
    /\ emitted' = emitted + 1
    /\ logged' = IF onError THEN logged + 1 ELSE logged
    /\ crashed' = ~onError
    /\ UNCHANGED << started, onReady, onError, server, store, jar, idp, reqs, rnd,
                    last, loggedOut, seq >>

\* ---- the callbacks of a request ----

\* The browser sends a request; it carries the cookie the browser holds, and
\* enters the first stage.
Arrive(kind) ==
    /\ ~crashed
    /\ server = "listening"
    /\ Cardinality(reqs) < MaxInFlight
    /\ LET q == [NewReq EXCEPT !.kind = kind, !.cookie = jar]
       IN  /\ q \notin reqs
           /\ Commit(q, Run(World(q)))
    /\ seq' = CASE reqs # {} -> "none"
                [] reqs = {} /\ kind = "logout" -> "logout"
                [] reqs = {} /\ kind = "root" /\ seq = "loggedOut" -> "root"
                [] OTHER -> "none"
    /\ UNCHANGED << bootVars, rnd >>

\* The history of the sequential scenario when a callback ended with out.
SeqAfter(out) ==
    CASE out = "done" /\ seq = "logout" -> "loggedOut"
      [] out = "done" /\ seq = "root" -> "none"
      [] OTHER -> seq

\* The static file lookup of request q ended.
StaticDone(q) ==
    /\ ~crashed
    /\ WaitsAt(q, "static")
    /\ LET w == Run(StaticMiss(World(q)))
       IN  Commit(q, w) /\ seq' = SeqAfter(w.out)
    /\ UNCHANGED << bootVars, rnd >>

\* The store delivers the session of request q.
SessionLoaded(q) ==
    /\ ~crashed
    /\ WaitsAt(q, "session")
    /\ LET w == Run(SessionDelivered(World(q)))
       IN  Commit(q, w) /\ seq' = SeqAfter(w.out)
    /\ UNCHANGED << bootVars, rnd >>

\* The page of request q is rendered.
RenderDone(q) ==
    /\ ~crashed
    /\ WaitsAt(q, "route")
    /\ LET w == Run(RenderSend(World(q)))
       IN  Commit(q, w) /\ seq' = SeqAfter(w.out)
    /\ UNCHANGED << bootVars, rnd >>

\* ---- specifications ----

\* The draws every GET / of the main specification sees; SpecPage ranges over
\* all of them.
DrawsUnderLoad == [i \in 1..(NumCoffees + 1) |-> 1]

Init ==
    /\ started = FALSE
    /\ oidc = "none"
    /\ onReady = FALSE
    /\ onError = FALSE
    /\ server = "closed"
    /\ emitted = 0
    /\ logged = 0
    /\ crashed = FALSE
    /\ store = << >>
    /\ jar = 0
    /\ idp = FALSE
    /\ reqs = {}
    /\ rnd = DrawsUnderLoad
    /\ last = NoLast
    /\ loggedOut = {}
    /\ seq = "none"

Next ==
    \/ Start
    \/ OidcReady
    \/ ListenDone
    \/ OidcError
    \/ \E k \in Kinds : Arrive(k)
    \/ \E q \in reqs : StaticDone(q)
    \/ \E q \in reqs : SessionLoaded(q)
    \/ \E q \in reqs : RenderDone(q)

Spec == Init /\ [][Next]_vars

\* The landing page alone, over every outcome of its draws: a listening server
\* holds one GET / that has just arrived, of an anonymous visitor or of a user
\* who logged in.
InitPage ==
    /\ started = TRUE
    /\ oidc = "ready"
    /\ onReady = ReadyHandlerRegistered
    /\ onError = ErrorHandlerRegistered
    /\ server = "listening"
    /\ emitted = 0
    /\ logged = 0
    /\ crashed = FALSE
    /\ loggedOut = {}
    /\ seq = "none"
    /\ rnd \in [1..(NumCoffees + 1) -> RandIndex]
    /\ \E auth \in BOOLEAN :
         /\ idp = auth
         /\ jar = IF auth THEN 1 ELSE 0
         /\ store = IF auth THEN [s \in {1} |-> {"passport"}] ELSE << >>
         /\ last = IF auth
                   THEN [NoLast EXCEPT !.kind = "callback", !.status = 302,
                                       !.location = "/", !.prompted = TRUE]
                   ELSE NoLast
         /\ reqs = {[NewReq EXCEPT !.kind = "root", !.cookie = IF auth THEN 1 ELSE 0]}

NextPage ==
    \/ \E q \in reqs : StaticDone(q)
    \/ \E q \in reqs : SessionLoaded(q)
    \/ \E q \in reqs : RenderDone(q)

SpecPage == InitPage /\ [][NextPage]_vars

(***************************************************************************)
(* Properties.                                                             *)
(***************************************************************************)

\* The requests whose page is being rendered.
Rendering == {q \in reqs : WaitsAt(q, "route")}

\* The pages that exist: those being rendered and the one sent last.
Pages ==
    {q.page : q \in Rendering} \cup (IF last.kind = "root" THEN {last.page} ELSE {})

\* This step sends the response of request q.
Completes(q) == q \in reqs /\ reqs' = reqs \ {q}

\* C1: app.listen is called, and the server listens, only after the identity
\* middleware's 'ready' has fired.
C1_ListenOnlyAfterReady == server \in {"binding", "listening"} => oidc = "ready"

C1_Witness == server = "listening" /\ oidc = "ready" /\ reqs # {}

\* C2: when a GET /logout completes, the response is a 302 redirect to "/" and
\* the store holds no session under the id of the session the request had
\* loaded, whatever keys it held; a request that had loaded none (its session
\* was generated) leaves the store as it was.
C2_LogoutClearsSession ==
    [][\A q \in reqs :
         (q.kind = "logout" /\ Completes(q))
            => /\ last'.kind = "logout"
               /\ last'.status = 302
               /\ last'.location = "/"
               /\ (q.hasSession => q.sid \notin DOMAIN store')
               /\ (~q.hasSession => store' = store)]_vars

C2_Witness ==
    /\ last.kind = "logout"
    /\ last.status = 302
    /\ jar \in loggedOut
    /\ jar \notin DOMAIN store

\* C3: a GET /logout leaves the provider's session as it was, and a login whose
\* callback finds the provider's session valid gets its identity without a
\* credential prompt.
C3_ProviderSessionKept ==
    [][\A q \in reqs :
         /\ (q.kind = "logout" /\ Completes(q)) => idp' = idp
         /\ (q.kind = "callback" /\ Completes(q) /\ last'.status = 302 /\ idp)
               => /\ ~last'.prompted
                  /\ q.sid \in DOMAIN store'
                  /\ "passport" \in store'[q.sid]]_vars

C3_Witness ==
    /\ loggedOut # {}
    /\ idp
    /\ last.kind = "callback"
    /\ last.status = 302
    /\ ~last.prompted

\* C4 as claimed: once the middleware has emitted 'error', at initialization or
\* later, the error is logged, the process lives and the server serves.
C4_ServesAfterAnyError ==
    emitted > 0 => (logged = emitted /\ ~crashed /\ server = "listening")

\* C4 amended: once the middleware has emitted 'error', the error is logged
\* and the process lives; after an error at run time the server still
\* listens, after an error at initialization it never starts to.
C4_ErrorLoggedNotFatal ==
    emitted > 0 =>
        /\ logged = emitted
        /\ ~crashed
        /\ (oidc = "ready" => server = "listening")
        /\ (oidc = "failed" => server = "closed" /\ reqs = {})

C4_Witness ==
    /\ emitted > 0
    /\ logged = emitted
    /\ oidc = "ready"
    /\ Rendering # {}

\* C5: every page carries exactly 4 product codes, each two decimal digits that
\* denote an integer in 1..12.
C5_FourPaddedCodes ==
    \A p \in Pages :
        /\ Len(p.product) = NumCoffees
        /\ \A i \in 1..Len(p.product) :
             LET c == p.product[i]
             IN  /\ Len(c) = 2
                 /\ \E n \in 1..CoffeeKinds :
                      c = << DigitChars[(n \div 10) + 1], DigitChars[(n % 10) + 1] >>

C5_Witness ==
    /\ last.kind = "root"
    /\ last.page.product[1] = << "1", "2" >>
    /\ last.page.product[NumCoffees] = << "0", "1" >>

\* C6: every page's discount is an integer in 5..15; the smallest draw gives 5
\* and the largest gives 15.
C6_DiscountRange ==
    \A p \in Pages :
        /\ p.discount \in 5..15
        /\ (rnd[NumCoffees + 1] = 0 => p.discount = 5)
        /\ (rnd[NumCoffees + 1] = RandMaxIndex => p.discount = 15)

C6_Witness == last.kind = "root" /\ last.page.discount = 15

\* 8.95 * (100 - d) / 100 in cents, rounded half up to the cent, with two decimals.
ExactPrice(d) ==
    LET cents == ((895 * (100 - d)) + 50) \div 100
    IN  NumToString(cents \div 100) \o << "." >> \o PadStart(NumToString(cents % 100), 2, "0")

\* C7: the displayed price of every page is 8.95 * (100 - discount) / 100
\* rounded to two decimals; discount 10 is displayed as "8.06".
C7_PriceIsRoundedExactly ==
    \A p \in Pages :
        /\ p.basePrice = ExactPrice(p.discount)
        /\ (p.discount = 10 => p.basePrice = << "8", ".", "0", "6" >>)

\* C8: a page being rendered shows the display name exactly when the request's
\* session holds an identity; the page of a GET / sent after a GET /logout,
\* each with no other request in flight, is rendered without a name.
C8_NameOnlyWithIdentity ==
    \A q \in Rendering :
        /\ (q.page.name = DisplayName) = ("passport" \in q.sess)
        /\ (q.page.name # DisplayName) = (q.page.name = Undefined)
        /\ (seq = "root" => q.page.name = Undefined)

C8_Witness ==
    /\ idp
    /\ seq = "root"
    /\ jar \in loggedOut
    /\ \E q \in Rendering : q.cookie = jar /\ q.page.name = Undefined

\* C9: once a GET /logout has destroyed a session with identity and no request
\* of that session is in flight any more, the store holds no identity under
\* that session id.
C9_LogoutFinal ==
    \A sid \in loggedOut :
        (\A q \in reqs : q.sid # sid /\ q.cookie # sid)
            => (sid \notin DOMAIN store \/ "passport" \notin store[sid])

====
